---- MODULE Spec2Model ----
(***************************************************************************)
(* Model of streamlit_code.py: the three PDF converters (convert_to_text,  *)
(* convert_to_excel, convert_to_word) and the "Convert" button handler     *)
(* that stages the upload in a temporary file, dispatches on the chosen    *)
(* format, writes the fixed-name output file, offers it for download and   *)
(* cleans up in its finally clause.                                        *)
(*                                                                         *)
(* Text is modelled by TLA+ strings (\o is Python's +).  A Python value    *)
(* that may be None is a record with a field "none".                       *)
(***************************************************************************)
EXTENDS Integers, Sequences, FiniteSets, TLC

VARIABLES
    pdf,        \* converters: the PDF file handed to the converters
    text_data,  \* converters: what convert_to_text(pdf) returned, or Pending
    df,         \* converters: what convert_to_excel(pdf) returned, or Pending
    doc_obj,    \* converters: what convert_to_word(pdf) returned, or Pending
    req,        \* handler: per browser session, the state of its script run
    files,      \* handler: the output files in the working directory
    tmp,        \* handler: the temporary input files that exist
    nreq        \* handler: number of Convert clicks so far

vars == <<pdf, text_data, df, doc_obj, req, files, tmp, nreq>>

conv_vars == <<pdf, text_data, df, doc_obj>>
req_vars == <<req, files, tmp, nreq>>

-----------------------------------------------------------------------------
(* Bounds *)

\* Largest number of pages of a PDF handed to the converters.
MaxPages == 2

\* Largest number of Convert clicks handled by the process.
MaxRequests == 2

-----------------------------------------------------------------------------
(* PDF files as the libraries see them *)

\* Literal appended by convert_to_word after every page but the last.
PageBreak == "\n\n--- Page Break ---\n\n"

\* Column name of the no-tables fallback DataFrame.
TextColumn == "Text Content from PDF"

\* What page.get_text() can return for a page.  One page consists of the
\* separator's own characters: nothing in the code prevents that.
PageTexts == {"", "Hello", "World", PageBreak}

\* Tables as page.extract_tables() returns them: a list of rows, each row a
\* list of cells, the first row being the header.
T_AB == << <<"A", "B">>, <<"1", "2">> >>
T_AB2 == << <<"A", "B">>, <<"3", "4">>, <<"5", "6">> >>
T_C == << <<"C">>, <<"7">> >>
T_Dup == << <<"A", "A">>, <<"8", "9">> >>
T_HeaderOnly == << <<"A", "B">> >>
\* Degenerate detections the guard on line 44 is written for: a table with
\* no row at all, and a table of two rows whose first row has no cell.
T_Empty == << >>
T_NoHeader == << << >>, << >> >>

\* What page.extract_tables() can return for a page.
PageTables ==
    { << >>, <<T_AB>>, <<T_AB2, T_C>>, <<T_Dup>>, <<T_HeaderOnly>>,
      <<T_Empty, T_NoHeader>>, <<T_NoHeader, T_AB>> }

\* The pages the converters are run on.
Pages ==
    [text : PageTexts, tables : {<< >>}]
      \cup [text : {"", "Hello"}, tables : PageTables \ {<< >>}]

SeqUpTo(S, n) == UNION {[1..k -> S] : k \in 1..n}

\* A PDF file: its pages (at least one), whether PyMuPDF (fitz) can open and read it, and
\* whether pdfplumber can.  The two libraries parse independently, so one may
\* fail where the other succeeds.
PdfFiles ==
    [pages : SeqUpTo(Pages, MaxPages), fitz_ok : BOOLEAN, plumber_ok : BOOLEAN]

-----------------------------------------------------------------------------
(* convert_to_text *)

\* for page_num in range(len(pdf_document)): text_content += page.get_text()
\* (page_num is 1-based here.)
RECURSIVE text_loop_mut(_, _, _)
text_loop_mut(pages, page_num, text_content) ==
    IF page_num > Len(pages)
    THEN text_content
    ELSE text_loop_mut(pages, page_num + 1,
                       pages[page_num].text \o text_content)

RECURSIVE text_loop(_, _, _)
text_loop(pages, page_num, text_content) ==
    IF page_num > Len(pages)
    THEN text_content
    ELSE text_loop(pages, page_num + 1, text_content \o pages[page_num].text)

\* Returns the text, or None after st.error when fitz raised.
RECURSIVE join_mut(_, _, _)
join_mut(pages, page_num, text_content) ==
    IF page_num > Len(pages)
    THEN text_content
    ELSE join_mut(pages, page_num + 1,
            text_content \o pages[page_num].text
              \o (IF page_num < Len(pages) THEN PageBreak ELSE ""))

convert_to_text_mut(p) ==
    IF p.fitz_ok
    THEN [none |-> FALSE, text |-> join_mut(p.pages, 1, ""), ui |-> << >>]
    ELSE [none |-> TRUE, ui |-> <<"error: Failed to extract text">>]

convert_to_text(p) ==
    IF p.fitz_ok
    THEN [none |-> FALSE, text |-> text_loop(p.pages, 1, ""), ui |-> << >>]
    ELSE [none |-> TRUE, ui |-> <<"error: Failed to extract text">>]

-----------------------------------------------------------------------------
(* convert_to_word *)

\* if page_num < len(pdf_document) - 1, with page_num counted from 1 and n
\* the number of pages.
page_break_after_mut(page_num, n) == page_num <= n

page_break_after(page_num, n) == page_num < n

\* The page loop of convert_to_word: the page's text, then the separator
\* unless the page is the last one.
RECURSIVE word_loop(_, _, _)
word_loop(pages, page_num, text_content) ==
    IF page_num > Len(pages)
    THEN text_content
    ELSE LET with_page == text_content \o pages[page_num].text
             with_break == IF page_break_after(page_num, Len(pages))
                           THEN with_page \o PageBreak
                           ELSE with_page
         IN  word_loop(pages, page_num + 1, with_break)

\* Returns the document (its paragraphs), or None after st.error.
convert_to_word(p) ==
    IF p.fitz_ok
    THEN [none |-> FALSE, paragraphs |-> <<word_loop(p.pages, 1, "")>>,
          ui |-> << >>]
    ELSE [none |-> TRUE, ui |-> <<"error: Failed to convert to Word">>]

-----------------------------------------------------------------------------
(* pandas *)

\* Cell pandas puts where a frame has no such column.
NaN == "NaN"

\* pd.DataFrame(data, columns=columns)
pd_DataFrame(data, columns) == [columns |-> columns, rows |-> data]

\* pd.DataFrame()
EmptyDataFrame == [columns |-> << >>, rows |-> << >>]

HasDuplicates(s) == \E i, j \in 1..Len(s) : i < j /\ s[i] = s[j]

\* The columns of the frames in order of first appearance (sort=False).
RECURSIVE union_columns(_, _, _)
union_columns(frames, i, acc) ==
    IF i > Len(frames)
    THEN acc
    ELSE LET new == SelectSeq(frames[i].columns,
                       LAMBDA c : \A k \in 1..Len(acc) : acc[k] # c)
         IN  union_columns(frames, i + 1, acc \o new)

\* One row of a frame with columns from_cols, laid out on to_cols.
reindex(row, from_cols, to_cols) ==
    [j \in 1..Len(to_cols) |->
        IF \E i \in 1..Len(from_cols) : from_cols[i] = to_cols[j]
        THEN row[CHOOSE i \in 1..Len(from_cols) : from_cols[i] = to_cols[j]]
        ELSE NaN]

RECURSIVE concat_rows(_, _, _, _)
concat_rows(frames, i, columns, acc) ==
    IF i > Len(frames)
    THEN acc
    ELSE LET f == frames[i]
             rows == IF f.columns = columns
                     THEN f.rows
                     ELSE [k \in 1..Len(f.rows) |->
                              reindex(f.rows[k], f.columns, columns)]
         IN  concat_rows(frames, i + 1, columns, acc \o rows)

\* pd.concat(frames): the rows of the frames one after the other, on the
\* union of their columns.  When the frames' columns differ, a frame with a
\* repeated column name cannot be reindexed and pandas raises.
pd_concat(frames) ==
    LET same == \A i \in 1..Len(frames) : frames[i].columns = frames[1].columns
        columns == IF same THEN frames[1].columns
                   ELSE union_columns(frames, 1, << >>)
    IN  IF ~same /\ \E i \in 1..Len(frames) : HasDuplicates(frames[i].columns)
        THEN [raised |-> TRUE]
        ELSE [raised |-> FALSE,
              df |-> [columns |-> columns,
                      rows |-> concat_rows(frames, 1, columns, << >>)]]

-----------------------------------------------------------------------------
(* convert_to_excel *)

\* if table and table[0]
keep_table(table) == table # << >> /\ table[1] # << >>

\* pd.DataFrame(table[1:], columns=table[0])
frame_of_mut(table) == pd_DataFrame(table, table[1])

frame_of(table) == pd_DataFrame(Tail(table), table[1])

\* for table in tables: ... all_tables.append(...)
RECURSIVE tables_loop(_, _, _)
tables_loop(tables, i, all_tables) ==
    IF i > Len(tables)
    THEN all_tables
    ELSE tables_loop(tables, i + 1,
            IF keep_table(tables[i])
            THEN Append(all_tables, frame_of(tables[i]))
            ELSE all_tables)

\* for page in pdf.pages: tables = page.extract_tables() ...
RECURSIVE pages_loop(_, _, _)
pages_loop(pages, i, all_tables) ==
    IF i > Len(pages)
    THEN all_tables
    ELSE pages_loop(pages, i + 1, tables_loop(pages[i].tables, 1, all_tables))

\* if text_content: (None and "" are both false)
truthy_mut(t) == ~t.none

truthy(t) == ~t.none /\ t.text # ""

\* Returns kind "df" with a DataFrame, kind "none" (None after st.error), or
\* kind "raise" when pd.concat, which is outside the try, raised.
convert_to_excel(p) ==
    IF ~p.plumber_ok
    THEN [kind |-> "none", ui |-> <<"error: Failed to extract tables">>]
    ELSE LET all_tables == pages_loop(p.pages, 1, << >>)
         IN  IF all_tables # << >>
             THEN LET c == pd_concat(all_tables)
                      ui == <<"info: Tables found">>
                  IN  IF c.raised
                      THEN [kind |-> "raise", ui |-> ui]
                      ELSE [kind |-> "df", df |-> c.df, ui |-> ui]
             ELSE LET text_content == convert_to_text(p)
                      ui == <<"warning: No tables were found">>
                              \o text_content.ui
                  IN  IF truthy(text_content)
                      THEN [kind |-> "df",
                            df |-> pd_DataFrame(<< <<text_content.text>> >>,
                                                <<TextColumn>>),
                            ui |-> ui]
                      ELSE [kind |-> "df", df |-> EmptyDataFrame, ui |-> ui]

-----------------------------------------------------------------------------
(* The converters run on one PDF *)

Pending == [pending |-> TRUE]

IsPending(x) == "pending" \in DOMAIN x

NoSessions == [s \in {} |-> 0]

InitConv ==
    /\ pdf \in PdfFiles
    /\ text_data = Pending
    /\ df = Pending
    /\ doc_obj = Pending
    /\ req = NoSessions
    /\ files = << >>
    /\ tmp = {}
    /\ nreq = 0

RunConvertToText ==
    /\ IsPending(text_data)
    /\ text_data' = convert_to_text(pdf)
    /\ UNCHANGED <<pdf, df, doc_obj, req_vars>>

RunConvertToExcel ==
    /\ IsPending(df)
    /\ df' = convert_to_excel(pdf)
    /\ UNCHANGED <<pdf, text_data, doc_obj, req_vars>>

RunConvertToWord ==
    /\ IsPending(doc_obj)
    /\ doc_obj' = convert_to_word(pdf)
    /\ UNCHANGED <<pdf, text_data, df, req_vars>>

NextConv == RunConvertToText \/ RunConvertToExcel \/ RunConvertToWord

SpecConv == InitConv /\ [][NextConv]_vars

-----------------------------------------------------------------------------
(* The Convert button handler *)

\* Browser sessions served by the one Streamlit process; each runs the script
\* in its own thread, so their file operations interleave.
Sessions == {"s1", "s2"}

\* The options of the st.radio.
Formats == {"Text (.txt)", "Excel (.xlsx)", "Word (.docx)"}

\* The fixed output file names.
OutputNames == {"output.txt", "output.xlsx", "output.docx"}

Page(text, tables) == [text |-> text, tables |-> tables]

\* The uploads the handler is run on: a two-page text PDF, a PDF whose
\* tables make pd.concat raise, a PDF neither library can read, and one that
\* only pdfplumber can read.
Uploads ==
    { [pages |-> <<Page("Hello", << >>), Page("World", << >>)>>,
       fitz_ok |-> TRUE, plumber_ok |-> TRUE],
      [pages |-> <<Page("Hello", <<T_Dup>>), Page("World", <<T_AB>>)>>,
       fitz_ok |-> TRUE, plumber_ok |-> TRUE],
      [pages |-> <<Page("Hello", << >>)>>,
       fitz_ok |-> FALSE, plumber_ok |-> FALSE],
      [pages |-> <<Page("Hello", << >>)>>,
       fitz_ok |-> FALSE, plumber_ok |-> TRUE] }

NoFile == [exists |-> FALSE]

NotOffered == [none |-> TRUE]

NoRemoval == [attempted |-> FALSE]

\* A session whose script is not inside the handler and has run none yet.
Idle ==
    [pc |-> "idle", id |-> 0, conversion_type |-> "",
     output_file_path |-> "", ui |-> << >>, wrote |-> "no",
     offered |-> NotOffered, caught |-> FALSE, unhandled |-> FALSE,
     removal |-> NoRemoval]

Init ==
    /\ pdf = Pending
    /\ text_data = Pending
    /\ df = Pending
    /\ doc_obj = Pending
    /\ req = [s \in Sessions |-> Idle]
    /\ files = [n \in OutputNames |-> NoFile]
    /\ tmp = {}
    /\ nreq = 0

GenericError == "error: An unexpected error occurred during conversion"

\* What one branch of the dispatch does with its converter's result: the
\* file name, whether there is something to write, the data, whether the
\* converter raised, and the messages shown.
Branch(name, has_result, data, raised, ui, success) ==
    [name |-> name, has_result |-> has_result, data |-> data,
     raised |-> raised, ui |-> ui, success |-> success]

\* Lines 108-129.
dispatch(conversion_type, upload) ==
    IF conversion_type = "Text (.txt)"
    THEN LET t == convert_to_text(upload)
         IN  Branch("output.txt", ~t.none,
                    IF t.none THEN "" ELSE t.text, FALSE, t.ui,
                    "success: Conversion to Text complete!")
    ELSE IF conversion_type = "Excel (.xlsx)"
    THEN LET d == convert_to_excel(upload)
         IN  Branch("output.xlsx", d.kind = "df",
                    IF d.kind = "df" THEN d.df ELSE EmptyDataFrame,
                    d.kind = "raise", d.ui,
                    "success: Conversion to Excel complete!")
    ELSE LET w == convert_to_word(upload)
         IN  Branch("output.docx", ~w.none,
                    IF w.none THEN << >> ELSE w.paragraphs, FALSE,
                    <<"info: Word conversion only extracts text">> \o w.ui,
                    "success: Conversion to Word complete!")

\* The output file after the write: open(..., "w") / to_excel / save.  A
\* write that fails on opening leaves the directory as it was; one that
\* fails later leaves an incomplete file.
written(old, id, data, fault) ==
    IF fault = "open"
    THEN old
    ELSE [exists |-> TRUE, writer |-> id, data |-> data,
          complete |-> (fault = "none")]

\* The same with the download skipped after a successful write.
converted_mut(r, upload, fault) ==
    LET b == dispatch(r.conversion_type, upload)
        r1 == [r EXCEPT !.output_file_path = b.name, !.ui = @ \o b.ui]
    IN  IF b.raised
        THEN [r1 EXCEPT !.pc = "finally", !.caught = TRUE,
                        !.ui = @ \o <<GenericError>>]
        ELSE IF ~b.has_result
        THEN [r1 EXCEPT !.pc = "download"]
        ELSE IF fault = "none"
        THEN [r1 EXCEPT !.pc = "finally", !.wrote = "full",
                        !.ui = @ \o <<b.success>>]
        ELSE [r1 EXCEPT !.pc = "finally", !.caught = TRUE,
                        !.wrote = IF fault = "write" THEN "partial" ELSE "no",
                        !.ui = @ \o <<GenericError>>]

\* What the handler does once the temporary file is written (lines 105-129
\* and 141-143): the dispatch on the format, the converter, the write of the
\* output file and the success message; any exception goes to the outer
\* except.
converted(r, upload, fault) ==
    LET b == dispatch(r.conversion_type, upload)
        r1 == [r EXCEPT !.output_file_path = b.name, !.ui = @ \o b.ui]
    IN  IF b.raised
        THEN [r1 EXCEPT !.pc = "finally", !.caught = TRUE,
                        !.ui = @ \o <<GenericError>>]
        ELSE IF ~b.has_result
        THEN [r1 EXCEPT !.pc = "download"]
        ELSE IF fault = "none"
        THEN [r1 EXCEPT !.pc = "download", !.wrote = "full",
                        !.ui = @ \o <<b.success>>]
        ELSE [r1 EXCEPT !.pc = "finally", !.caught = TRUE,
                        !.wrote = IF fault = "write" THEN "partial" ELSE "no",
                        !.ui = @ \o <<GenericError>>]

\* Lines 99-129: the click on Convert, the temporary file, the converter and
\* the output file.  The staging (lines 101-103) is outside the try: an
\* exception of NamedTemporaryFile or of tmp_file.write leaves the script,
\* and delete=False keeps the file that was created.  The temporary file has
\* a unique name, here the request's number.
Convert(s) ==
    /\ req[s].pc \in {"idle", "done"}
    /\ nreq < MaxRequests
    /\ nreq' = nreq + 1
    /\ \E upload \in Uploads, conversion_type \in Formats,
          staging \in {"ok", "create fails", "write fails"},
          fault \in {"none", "open", "write"} :
          LET r == [Idle EXCEPT !.id = nreq + 1,
                                !.conversion_type = conversion_type]
              b == dispatch(conversion_type, upload)
          IN  IF staging # "ok"
              THEN /\ fault = "none"
                   /\ tmp' = IF staging = "create fails" THEN tmp
                             ELSE tmp \cup {r.id}
                   /\ files' = files
                   /\ req' = [req EXCEPT ![s] =
                                [r EXCEPT !.pc = "done", !.unhandled = TRUE]]
              ELSE /\ tmp' = tmp \cup {r.id}
                   /\ (b.raised \/ ~b.has_result) => fault = "none"
                   /\ files' = IF b.raised \/ ~b.has_result
                               THEN files
                               ELSE [files EXCEPT ![b.name] =
                                        written(@, r.id, b.data, fault)]
                   /\ req' = [req EXCEPT ![s] = converted(r, upload, fault)]
    /\ UNCHANGED conv_vars

\* os.path.exists(path); the empty path never exists.
path_exists(path) == path # "" /\ files[path].exists

\* Lines 131-139 and 141-143: if the output path exists, open it and hand it
\* to st.download_button; an exception of open goes to the outer except.
Download(s) ==
    /\ req[s].pc = "download"
    /\ LET r == req[s]
       IN  IF path_exists(r.output_file_path)
           THEN \E open_fails \in BOOLEAN :
                   req' = [req EXCEPT ![s] =
                      IF open_fails
                      THEN [r EXCEPT !.pc = "finally", !.caught = TRUE,
                                     !.ui = @ \o <<GenericError>>]
                      ELSE [r EXCEPT !.pc = "finally",
                               !.offered = [none |-> FALSE,
                                            file |-> files[r.output_file_path],
                                            file_name |-> r.output_file_path]]]
           ELSE req' = [req EXCEPT ![s] = [r EXCEPT !.pc = "finally"]]
    /\ UNCHANGED <<files, tmp, nreq, conv_vars>>

\* if output_file_path and os.path.exists(output_file_path)
removal_due(path) == path # "" /\ path_exists(path)

\* Lines 145-154, the finally clause: remove the temporary input (an OSError
\* of this os.remove is not caught and leaves the script), then try to
\* remove the output file (an OSError of that one is printed).
Cleanup(s) ==
    /\ req[s].pc = "finally"
    /\ LET r == req[s]
       IN  \E tmp_fails \in BOOLEAN, out_fails \in BOOLEAN :
              IF r.id \in tmp /\ tmp_fails
              THEN /\ req' = [req EXCEPT ![s] =
                                [r EXCEPT !.pc = "done", !.unhandled = TRUE]]
                   /\ UNCHANGED <<tmp, files>>
              ELSE /\ tmp' = tmp \ {r.id}
                   /\ IF removal_due(r.output_file_path)
                      THEN /\ files' = IF out_fails THEN files
                                 ELSE [files EXCEPT
                                          ![r.output_file_path] = NoFile]
                           /\ req' = [req EXCEPT ![s] =
                                [r EXCEPT !.pc = "done",
                                   !.removal =
                                      [attempted |-> TRUE,
                                       failed |-> out_fails,
                                       file |-> files[r.output_file_path]]]]
                      ELSE /\ files' = files
                           /\ req' = [req EXCEPT ![s] =
                                         [r EXCEPT !.pc = "done"]]
    /\ UNCHANGED <<nreq, conv_vars>>

Next == \E s \in Sessions : Convert(s) \/ Download(s) \/ Cleanup(s)

Spec == Init /\ [][Next]_vars

-----------------------------------------------------------------------------
(* Properties of the converters *)

RECURSIVE SumLen(_, _)
\* Total length of the text of the first n pages.
SumLen(pages, n) ==
    IF n = 0 THEN 0 ELSE SumLen(pages, n - 1) + Len(pages[n].text)

\* Where page i's text starts (0-based offset) in a string that holds the
\* pages in order with gap characters between consecutive pages.
PageOffset(pages, i, gap) == SumLen(pages, i - 1) + (i - 1) * gap

\* s holds the text of every page, in document order, with exactly gap
\* characters between consecutive pages and nothing else.
PagesLaidOut(s, pages, gap) ==
    /\ Len(s) = SumLen(pages, Len(pages))
                  + (IF Len(pages) = 0 THEN 0 ELSE (Len(pages) - 1) * gap)
    /\ \A i \in 1..Len(pages) :
          SubSeq(s, PageOffset(pages, i, gap) + 1,
                    PageOffset(pages, i, gap) + Len(pages[i].text))
            = pages[i].text

\* Number of places where sub occurs in s.
Occurrences(s, sub) ==
    Cardinality({k \in 1..(Len(s) - Len(sub) + 1) :
                    SubSeq(s, k, k + Len(sub) - 1) = sub})

PlainPages(pages) ==
    \A i \in 1..Len(pages) : pages[i].text \in {"", "Hello", "World"}

\* C8: for a readable PDF convert_to_text returns exactly the texts of the
\* pages one after the other in document order, with nothing between them;
\* pages "Hello" and "World" give "HelloWorld".
C8_TextIsRawConcatenation ==
    (~IsPending(text_data) /\ pdf.fitz_ok) =>
        /\ ~text_data.none
        /\ PagesLaidOut(text_data.text, pdf.pages, 0)
        /\ (PlainPages(pdf.pages) => Occurrences(text_data.text, PageBreak) = 0)
        /\ (Len(pdf.pages) = 2 /\ pdf.pages[1].text = "Hello"
               /\ pdf.pages[2].text = "World")
             => text_data.text = "HelloWorld"

C8_Witness ==
    /\ ~IsPending(text_data)
    /\ pdf.fitz_ok
    /\ Len(pdf.pages) = 2
    /\ pdf.pages[1].text = "Hello"
    /\ pdf.pages[2].text = "World"
    /\ text_data.text = "HelloWorld"

\* The text convert_to_word put in the document's single paragraph.
WordText == doc_obj.paragraphs[1]

\* C6: for a readable PDF of N >= 1 pages the Word text holds the pages in
\* order with one PageBreak inserted after every page except the last, that
\* is N-1 of them, and none when N = 1.
C6_PageBreaksBetweenPages ==
    (~IsPending(doc_obj) /\ pdf.fitz_ok /\ Len(pdf.pages) >= 1) =>
        LET N == Len(pdf.pages)
            L == Len(PageBreak)
        IN  /\ ~doc_obj.none
            /\ Len(doc_obj.paragraphs) = 1
            /\ PagesLaidOut(WordText, pdf.pages, L)
            /\ \A i \in 1..(N - 1) :
                  LET e == PageOffset(pdf.pages, i, L) + Len(pdf.pages[i].text)
                  IN  SubSeq(WordText, e + 1, e + L) = PageBreak
            /\ (N = 1 => WordText = pdf.pages[1].text)
            /\ (PlainPages(pdf.pages)
                  => Occurrences(WordText, PageBreak) = N - 1)

C6_Witness ==
    /\ ~IsPending(doc_obj)
    /\ pdf.fitz_ok
    /\ Len(pdf.pages) = 2
    /\ WordText = "Hello" \o PageBreak \o "World"

\* The positions of s taken by the separators inserted between the pages.
InsertedPositions(pages) ==
    LET L == Len(PageBreak)
    IN  UNION {LET e == PageOffset(pages, i, L) + Len(pages[i].text)
               IN  (e + 1)..(e + L) : i \in 1..(Len(pages) - 1)}

RECURSIVE WithoutPositions(_, _, _)
\* s without the characters at the positions in drop, from position k on.
WithoutPositions(s, drop, k) ==
    IF k > Len(s)
    THEN ""
    ELSE (IF k \in drop THEN "" ELSE SubSeq(s, k, k)) 
            \o WithoutPositions(s, drop, k + 1)

\* C10: the paragraph text of convert_to_word with the inserted separators
\* taken out is the string convert_to_text returns for the same PDF.
C10_WordAgreesWithText ==
    (~IsPending(doc_obj) /\ ~IsPending(text_data) /\ pdf.fitz_ok) =>
        /\ ~doc_obj.none
        /\ ~text_data.none
        /\ WithoutPositions(WordText, InsertedPositions(pdf.pages), 1)
             = text_data.text

C10_Witness ==
    /\ ~IsPending(doc_obj)
    /\ ~IsPending(text_data)
    /\ pdf.fitz_ok
    /\ Len(pdf.pages) = 2
    /\ pdf.pages[1].text = "World"
    /\ pdf.pages[2].text = PageBreak
    /\ WordText # text_data.text

-----------------------------------------------------------------------------
(* Properties of convert_to_excel *)

NoTablesDetected(p) == \A i \in 1..Len(p.pages) : p.pages[i].tables = << >>

\* The no-tables case with extractable text, conversion done, and the text
\* extracted on its own for comparison.
FallbackCase ==
    /\ ~IsPending(df)
    /\ ~IsPending(text_data)
    /\ pdf.plumber_ok
    /\ pdf.fitz_ok
    /\ NoTablesDetected(pdf)

\* C4 as claimed: with no table detected and the text (possibly empty)
\* extractable, the result has the single header "Text Content from PDF" and
\* a single data row whose only cell is the full extracted text.
C4_FallbackAlwaysOneRow ==
    FallbackCase =>
        /\ df.kind = "df"
        /\ df.df.columns = <<TextColumn>>
        /\ df.df.rows = << <<text_data.text>> >>

\* C4 amended: that holds when the extracted text is not empty; when it is
\* empty the result is the empty DataFrame, with no header and no data row.
C4_FallbackOneRowUnlessEmpty ==
    FallbackCase =>
        /\ df.kind = "df"
        /\ text_data.text # "" =>
              /\ df.df.columns = <<TextColumn>>
              /\ df.df.rows = << <<text_data.text>> >>
        /\ text_data.text = "" => df.df = EmptyDataFrame

C4_Witness ==
    /\ FallbackCase
    /\ Len(pdf.pages) = 2
    /\ text_data.text = "HelloWorld"
    /\ df.df.rows = << <<"HelloWorld">> >>

RECURSIVE DetectedTables(_)
\* Every table detected in the document, in page order and, within a page,
\* in detection order.
DetectedTables(pages) ==
    IF pages = << >>
    THEN << >>
    ELSE Head(pages).tables \o DetectedTables(Tail(pages))

\* A table's rows after its header row, each with the header it belongs to.
DataRows(table) ==
    [k \in 1..(IF Len(table) = 0 THEN 0 ELSE Len(table) - 1) |->
        [header |-> table[1], cells |-> table[k + 1]]]

RECURSIVE DataRowsOf(_)
DataRowsOf(tables) ==
    IF tables = << >>
    THEN << >>
    ELSE DataRows(Head(tables)) \o DataRowsOf(Tail(tables))

\* Row r of a frame with the given columns carries the cells of expected row
\* e under e's header names, and NaN under every other column.
RowCarries(columns, r, e) ==
    IF columns = e.header
    THEN r = e.cells
    ELSE /\ Len(r) = Len(columns)
         /\ \A i \in 1..Len(e.header) :
               \E j \in 1..Len(columns) :
                  columns[j] = e.header[i] /\ r[j] = e.cells[i]
         /\ \A j \in 1..Len(columns) :
               (\A i \in 1..Len(e.header) : e.header[i] # columns[j])
                  => r[j] = NaN

\* The frame's data rows are exactly the expected rows, in that order.
RowsAre(frame, expected) ==
    /\ Len(frame.rows) = Len(expected)
    /\ \A k \in 1..Len(expected) :
          RowCarries(frame.columns, frame.rows[k], expected[k])

\* The conversion took the table path (line 52).
TablesFound == ~IsPending(df) /\ pdf.plumber_ok /\ df.kind = "df"
                 /\ df.ui = <<"info: Tables found">>

HeadedTables(pages) ==
    SelectSeq(DetectedTables(pages),
              LAMBDA t : Len(t) >= 1 /\ Len(t[1]) >= 1)

-----------------------------------------------------------------------------
(* Properties of the handler *)

Done(s) == req[s].pc = "done"

Shown(s, msg) == \E i \in 1..Len(req[s].ui) : req[s].ui[i] = msg

\* C1: once a request has completed, the temporary input file it staged no
\* longer exists, however the request ended.
C1_TempFileGoneWhenDone ==
    \A s \in Sessions : Done(s) => req[s].id \notin tmp

\* C2: no failure anywhere in a request leaves the handler as an unhandled
\* exception.
C2_NoUnhandledException ==
    \A s \in Sessions : Done(s) => ~req[s].unhandled

\* The converter of the request reported a failure of its extractor.
ExtractorFailed(s) ==
    \/ Shown(s, "error: Failed to extract text")
    \/ Shown(s, "error: Failed to extract tables")
    \/ Shown(s, "error: Failed to convert to Word")

ReportedComplete(s) ==
    \/ Shown(s, "success: Conversion to Text complete!")
    \/ Shown(s, "success: Conversion to Excel complete!")
    \/ Shown(s, "success: Conversion to Word complete!")

\* C3: a request whose extractor failed, the text extractor called as the
\* spreadsheet fallback included, does not report the conversion as complete
\* and writes no output file.  Stated for the requests in which nothing but
\* the extractor failed.
C3_FailedExtractionWritesNothing ==
    \A s \in Sessions :
        (Done(s) /\ ExtractorFailed(s) /\ ~req[s].caught /\ ~req[s].unhandled)
            => ~ReportedComplete(s) /\ req[s].wrote = "no"

\* C7: the file a request offers for download was written by that request.
C7_OfferedFileIsOwn ==
    \A s \in Sessions :
        ~req[s].offered.none => req[s].offered.file.writer = req[s].id

\* C9 as claimed: a request that wrote its output file attempts to remove
\* the file only after having offered it for download, and a failed removal
\* raises nothing and leaves the temporary input removed.
C9_RemovalOnlyAfterExposure ==
    \A s \in Sessions :
        (Done(s) /\ req[s].wrote = "full" /\ req[s].removal.attempted) =>
            /\ ~req[s].offered.none
            /\ req[s].removal.failed =>
                  ~req[s].unhandled /\ req[s].id \notin tmp

\* The finally clause of session s runs in this step and attempts to remove
\* the output file.
RemovalStep(s) ==
    /\ req[s].pc = "finally"
    /\ req'[s].pc = "done"
    /\ req'[s].removal.attempted

\* C9 amended: a request that wrote its output file attempts to remove that
\* file only after having offered it for download or after the outer except
\* caught an exception of opening it; a failed removal changes nothing of
\* what the request reported, raises nothing, and the temporary input is
\* removed.
C9_RemovalAfterExposureOrError ==
    [][\A s \in Sessions :
          RemovalStep(s) =>
            /\ (req[s].wrote = "full"
                  /\ req'[s].removal.file.writer = req[s].id)
                 => (~req[s].offered.none \/ req[s].caught)
            /\ req'[s].removal.failed =>
                 /\ ~req'[s].unhandled
                 /\ req'[s].ui = req[s].ui
                 /\ req'[s].offered = req[s].offered
                 /\ req'[s].caught = req[s].caught
                 /\ files' = files
                 /\ req[s].id \notin tmp']_vars

C9_Witness ==
    \E s \in Sessions :
        /\ Done(s)
        /\ req[s].wrote = "full"
        /\ ~req[s].offered.none
        /\ req[s].offered.file.writer = req[s].id
        /\ req[s].removal.attempted
        /\ req[s].removal.failed
        /\ req[s].removal.file.writer = req[s].id
        /\ req[s].id \notin tmp

=============================================================================
